---- MODULE Spec2Model ----
(***************************************************************************)
(* Model of modules/gas/googleapi.py: the credential cache (get_credentials *)
(* and class Creds), the Apps Script invocation helper (call_apps_script)   *)
(* and the bulk sheet writers (write_lol_to_sheet, send_bulk_data).         *)
(*                                                                          *)
(* Python values are encoded as follows.  None is the string "None" where   *)
(* a reference or a cell value is meant, the token 0 where an access token  *)
(* is meant and NoExpiry where a datetime is meant.  Time is counted in     *)
(* whole seconds.  A google.oauth2 credential is the record                 *)
(* [token, refresh_token, expiry]; Credentials.refresh(request) updates the *)
(* object in place and has no return statement, so the call evaluates to    *)
(* None.                                                                    *)
(***************************************************************************)
EXTENDS Integers, Sequences, FiniteSets, TLC

VARIABLES
    now,          \* datetime.utcnow(), in seconds
    store,        \* the pickled token file at credential_path
    pc,           \* "new" before Creds(cfg), then "ready" or "failed"
    _creds,       \* Creds._creds: "None" or "obj", a reference to credObj
    credObj,      \* the fields of the credential object built by get_credentials
    _refresh_ttl, \* Creds._refresh_ttl
    issued,       \* number of access tokens the authorization service has issued
    last,         \* observation of the last Creds call: inputs, calls made, result
    script,       \* observation of the last call_apps_script invocation
    sheet         \* observation of the last bulk writer invocation

credVars == <<now, store, pc, _creds, credObj, _refresh_ttl, issued, last>>
vars == <<now, store, pc, _creds, credObj, _refresh_ttl, issued, last, script, sheet>>

(***************************************************************************)
(* Bounds                                                                  *)
(***************************************************************************)
MaxTime == 6
MaxTTL == 2
MaxLife == 3
MaxIssued == 3
StartTime == 2
NoExpiry == -1

(***************************************************************************)
(* Credentials                                                             *)
(***************************************************************************)
NoCred == [token |-> 0, refresh_token |-> FALSE, expiry |-> NoExpiry]

NoFile == [present |-> FALSE, cred |-> NoCred]

StoredCreds ==
    [token : 0 .. 1, refresh_token : BOOLEAN, expiry : {NoExpiry} \cup (1 .. StartTime + 2)]

StoreContents == {NoFile} \cup [present : {TRUE}, cred : StoredCreds]

\* google.auth.credentials.Credentials.expired, read at line 53 (the library's
\* clock-skew allowance is taken as zero)
expired(c, t) == c.expiry # NoExpiry /\ t >= c.expiry

\* google.auth.credentials.Credentials.valid, read at line 52
valid(c, t) == c.token # 0 /\ ~expired(c, t)

\* the in-place effect of an accepted credentials.refresh(Request())
refreshed(c, t, life, tok) == [c EXCEPT !.token = tok, !.expiry = t + life]

\* the value the expression credentials.refresh(Request()) evaluates to
refresh_returns == "None"

\* credentials.refresh raises RefreshError without a refresh token, or when
\* the authorization service rejects the request
refresh_ok(c, accept) == c.refresh_token /\ accept

NoCall ==
    [op |-> "none", outcome |-> "none", retNone |-> TRUE, ret |-> NoCred,
     refreshCalls |-> 0, flowCalls |-> 0, dumps |-> 0, accept |-> TRUE,
     preRef |-> "None", preObj |-> NoCred, preNow |-> 0]

(***************************************************************************)
(* get_credentials(cfg), called by Creds.__init__                          *)
(***************************************************************************)
\* lines 52-53: which branch get_credentials takes for the loaded file
get_credentials_branch(file, t) ==
    IF file.present /\ valid(file.cred, t) THEN "keep"
    ELSE IF file.present /\ expired(file.cred, t) /\ file.cred.refresh_token
         THEN "refresh"
         ELSE "flow"

\* lines 59-60: pickle.dump(credentials, token)
pickle_dump(c) == [present |-> TRUE, cred |-> c]

\* lines 44-62; the result carries the returned credential and the new file
get_credentials(file, t, accept, life, tok, flowRefreshToken) ==
    LET branch == get_credentials_branch(file, t) IN
    CASE branch = "keep" ->
           [outcome |-> "returned", cred |-> file.cred, file |-> file,
            refreshCalls |-> 0, flowCalls |-> 0, dumps |-> 0, tokens |-> 0]
      [] branch = "refresh" /\ refresh_ok(file.cred, accept) ->
           LET c == refreshed(file.cred, t, life, tok) IN
           [outcome |-> "returned", cred |-> c, file |-> pickle_dump(c),
            refreshCalls |-> 1, flowCalls |-> 0, dumps |-> 1, tokens |-> 1]
      [] branch = "refresh" /\ ~refresh_ok(file.cred, accept) ->
           [outcome |-> "RefreshError", cred |-> file.cred, file |-> file,
            refreshCalls |-> 1, flowCalls |-> 0, dumps |-> 0, tokens |-> 0]
      [] branch = "flow" ->
           LET c == [token |-> tok, refresh_token |-> flowRefreshToken,
                     expiry |-> t + life] IN
           [outcome |-> "returned", cred |-> c, file |-> pickle_dump(c),
            refreshCalls |-> 0, flowCalls |-> 1, dumps |-> 1, tokens |-> 1]

\* Creds.__init__, lines 116-120
CredsInit ==
    /\ pc = "new"
    /\ \E ttl \in 0 .. MaxTTL, accept \in BOOLEAN, life \in 1 .. MaxLife,
          frt \in BOOLEAN :
          LET g == get_credentials(store, now, accept, life, issued + 1, frt) IN
          /\ store' = g.file
          /\ issued' = issued + g.tokens
          /\ _refresh_ttl' = ttl
          /\ IF g.outcome = "returned"
             THEN /\ pc' = "ready"
                  /\ _creds' = "obj"
                  /\ credObj' = g.cred
             ELSE /\ pc' = "failed"
                  /\ UNCHANGED <<_creds, credObj>>
          /\ last' = [op |-> "init", outcome |-> g.outcome,
                      retNone |-> g.outcome # "returned",
                      ret |-> IF g.outcome = "returned" THEN g.cred ELSE NoCred,
                      refreshCalls |-> g.refreshCalls, flowCalls |-> g.flowCalls,
                      dumps |-> g.dumps, accept |-> accept,
                      preRef |-> "None", preObj |-> NoCred, preNow |-> now]
    /\ UNCHANGED <<now, script, sheet>>

(***************************************************************************)
(* Creds.cred()                                                            *)
(***************************************************************************)
needs_refresh_any(c, t, ttl) == c.expiry # NoExpiry

\* lines 124-126: the credential has an expiry and it is closer than the ttl
needs_refresh(c, t, ttl) == c.expiry # NoExpiry /\ c.expiry - t < ttl

cred_rejected_fallback(ref, obj) ==
    [outcome |-> "returned", ref |-> ref,
     obj |-> [token |-> 1, refresh_token |-> TRUE, expiry |-> NoExpiry],
     retNone |-> FALSE,
     ret |-> [token |-> 1, refresh_token |-> TRUE, expiry |-> NoExpiry],
     refreshCalls |-> 1, flowCalls |-> 1, tokens |-> 0]

\* line 127 when refresh raises: the assignment is not executed, nothing is
\* retried and no consent flow is run
cred_rejected(ref, obj) ==
    [outcome |-> "RefreshError", ref |-> ref, obj |-> obj, retNone |-> TRUE,
     ret |-> NoCred, refreshCalls |-> 1, flowCalls |-> 0, tokens |-> 0]

\* lines 122-128
cred(ref, obj, t, ttl, accept, life, tok) ==
    IF ref = "None"
    THEN \* self._creds.expiry on None
         [outcome |-> "AttributeError", ref |-> ref, obj |-> obj, retNone |-> TRUE,
          ret |-> NoCred, refreshCalls |-> 0, flowCalls |-> 0, tokens |-> 0]
    ELSE IF needs_refresh(obj, t, ttl)
         THEN IF refresh_ok(obj, accept)
              THEN LET c == refreshed(obj, t, life, tok) IN
                   [outcome |-> "returned", ref |-> refresh_returns, obj |-> c,
                    retNone |-> refresh_returns = "None",
                    ret |-> IF refresh_returns = "None" THEN NoCred ELSE c,
                    refreshCalls |-> 1, flowCalls |-> 0, tokens |-> 1]
              ELSE cred_rejected(ref, obj)
         ELSE [outcome |-> "returned", ref |-> ref, obj |-> obj, retNone |-> FALSE,
               ret |-> obj, refreshCalls |-> 0, flowCalls |-> 0, tokens |-> 0]

CredCall ==
    /\ pc = "ready"
    /\ issued < MaxIssued
    /\ \E accept \in BOOLEAN, life \in 1 .. MaxLife :
          LET r == cred(_creds, credObj, now, _refresh_ttl, accept, life, issued + 1) IN
          /\ _creds' = r.ref
          /\ credObj' = r.obj
          /\ issued' = issued + r.tokens
          /\ last' = [op |-> "cred", outcome |-> r.outcome, retNone |-> r.retNone,
                      ret |-> r.ret, refreshCalls |-> r.refreshCalls,
                      flowCalls |-> r.flowCalls, dumps |-> 0, accept |-> accept,
                      preRef |-> _creds, preObj |-> credObj, preNow |-> now]
    /\ UNCHANGED <<now, store, pc, _refresh_ttl, script, sheet>>

\* the clock advances between calls
Tick ==
    /\ now < MaxTime
    /\ now' = now + 1
    /\ UNCHANGED <<store, pc, _creds, credObj, _refresh_ttl, issued, last, script, sheet>>

InitCreds ==
    /\ now = StartTime
    /\ store \in StoreContents
    /\ pc = "new"
    /\ _creds = "None"
    /\ credObj = NoCred
    /\ _refresh_ttl = 0
    /\ issued = 1
    /\ last = NoCall

(***************************************************************************)
(* call_apps_script and its default error handler                          *)
(***************************************************************************)
MaxDetails == 2
MaxTrace == 2

Frames == {[function |-> "f", lineNumber |-> 1], [function |-> "g", lineNumber |-> 2]}

TracesUpTo(n) == UNION {[1 .. k -> Frames] : k \in 0 .. n}

\* an ExecutionError of the Apps Script API; hasTrace tells whether the key
\* scriptStackTraceElements is present
ExecutionErrors ==
    [errorMessage : {"m1", "m2"}, hasTrace : {FALSE}, trace : {<<>>}]
        \cup [errorMessage : {"m1", "m2"}, hasTrace : {TRUE}, trace : TracesUpTo(MaxTrace)]

NoDetail == [errorMessage |-> "", hasTrace |-> FALSE, trace |-> <<>>]

\* what scripts().run(...).execute() can do: raise HttpError with a content,
\* return a body with an error key, or return a body with a response key
\* whose result may be missing
Responses ==
    [kind : {"HttpError"}, content : {"c403", "c500"}, details : {<<>>},
     hasResult : {FALSE}, result : {""}]
        \cup [kind : {"error"}, content : {""},
              details : UNION {[1 .. k -> ExecutionErrors] : k \in 1 .. MaxDetails},
              hasResult : {FALSE}, result : {""}]
        \cup [kind : {"response"}, content : {""}, details : {<<>>},
              hasResult : {TRUE}, result : {"r1", "r2"}]
        \cup [kind : {"response"}, content : {""}, details : {<<>>},
              hasResult : {FALSE}, result : {""}]

Handlers == {"output_script_error", "custom"}

RECURSIVE trace_lines(_)
\* lines 193-196: one logger.error per stack frame
trace_lines(trace) ==
    IF trace = <<>> THEN <<>>
    ELSE <<"\t" \o Head(trace).function \o ": " \o ToString(Head(trace).lineNumber)>>
             \o trace_lines(Tail(trace))

\* lines 186-197: the messages logged at error level and the value returned
output_script_error(error) ==
    [logs |-> <<"Script error " \o error.errorMessage>>
                 \o (IF error.hasTrace
                     THEN <<"Script error stracktrace follows">> \o trace_lines(error.trace)
                     ELSE <<>>),
     ret |-> "Error"]

\* a handler supplied by the caller: logs nothing, returns its own value
custom_handler(error) == [logs |-> <<>>, ret |-> "handled:" \o error.errorMessage]

error_handler(h, error) ==
    IF h = "output_script_error" THEN output_script_error(error) ELSE custom_handler(error)

last_detail(response) == response.details[Len(response.details)]

\* line 220: the detail handed to the handler
first_detail(response) == response.details[1]

on_http_error_swallowed(response) ==
    [outcome |-> "returned", ret |-> "Error", errorLogs |-> <<response.content>>,
     handlerCalls |-> 0, handlerArg |-> NoDetail, runCalls |-> 1]

\* lines 224-227: the except clause logs e.content once and re-raises
on_http_error(response) ==
    [outcome |-> "HttpError", ret |-> "", errorLogs |-> <<response.content>>,
     handlerCalls |-> 0, handlerArg |-> NoDetail, runCalls |-> 1]

\* lines 207-227, for the outcome `response` of the one remote call
call_apps_script(response, h, dev_mode) ==
    CASE response.kind = "HttpError" -> on_http_error(response)
      [] response.kind = "error" ->
           LET r == error_handler(h, first_detail(response)) IN
           [outcome |-> "returned", ret |-> r.ret, errorLogs |-> r.logs,
            handlerCalls |-> 1, handlerArg |-> first_detail(response), runCalls |-> 1]
      [] response.kind = "response" ->
           \* response["response"].get("result", {})
           [outcome |-> "returned",
            ret |-> IF response.hasResult THEN response.result ELSE "{}",
            errorLogs |-> <<>>, handlerCalls |-> 0, handlerArg |-> NoDetail,
            runCalls |-> 1]

NoScript ==
    [op |-> "none", response |-> [kind |-> "none", content |-> "", details |-> <<>>,
                                  hasResult |-> FALSE, result |-> ""],
     handler |-> "output_script_error", devMode |-> "true",
     outcome |-> "none", ret |-> "", errorLogs |-> <<>>, handlerCalls |-> 0,
     handlerArg |-> NoDetail, runCalls |-> 0]

CallAppsScript ==
    /\ script.op = "none"
    /\ \E response \in Responses, h \in Handlers, dev_mode \in {"true", "false"} :
          LET r == call_apps_script(response, h, dev_mode) IN
          script' = [op |-> "call_apps_script", response |-> response, handler |-> h,
                     devMode |-> dev_mode, outcome |-> r.outcome, ret |-> r.ret,
                     errorLogs |-> r.errorLogs, handlerCalls |-> r.handlerCalls,
                     handlerArg |-> r.handlerArg, runCalls |-> r.runCalls]
    /\ UNCHANGED <<credVars, sheet>>

\* the caller has consumed the result and is ready for its next call
ScriptReturn ==
    /\ script.op # "none"
    /\ script' = NoScript
    /\ UNCHANGED <<credVars, sheet>>

InitScript == script = NoScript

(***************************************************************************)
(* Bulk sheet writers                                                      *)
(***************************************************************************)
MaxRows == 2
MaxCols == 2
MaxIdx == 2
MaxTriples == 3

GridValues == {"a", "", "None"}
NaVals == {"", "x"}
TripleValues == {"a", "b"}

\* rectangular grids with at least one column, and the empty list
Grids ==
    {<<>>} \cup UNION {[1 .. r -> [1 .. c -> GridValues]] : r \in 1 .. MaxRows, c \in 1 .. MaxCols}

Triples == [r : 1 .. MaxIdx, c : 1 .. MaxIdx, v : TripleValues]

TripleLists == UNION {[1 .. k -> Triples] : k \in 0 .. MaxTriples}

\* gspread Worksheet.range(first_row, first_col, last_row, last_col): one Cell
\* per position, row by row, holding what the sheet holds ("old")
ws_range(r1, c1, r2, c2) ==
    LET nc == c2 - c1 + 1
        nr == r2 - r1 + 1
    IN [k \in 1 .. nr * nc |->
           [row |-> r1 + ((k - 1) \div nc), col |-> c1 + ((k - 1) % nc), value |-> "old"]]

\* list.pop(i) at the 1-based index i
pop_last(write_range, i) == SubSeq(write_range, 1, Len(write_range) - 1)

pop(write_range, i) ==
    SubSeq(write_range, 1, i - 1) \o SubSeq(write_range, i + 1, Len(write_range))

\* line 258: None becomes na_val
clean(x, na_val) == IF x = "None" THEN na_val ELSE x

RECURSIVE serialize(_, _)
\* lines 258 and 261: the cleaned grid flattened row by row
serialize(lol_data, na_val) ==
    IF lol_data = <<>> THEN <<>>
    ELSE [j \in 1 .. Len(Head(lol_data)) |-> clean(Head(lol_data)[j], na_val)]
             \o serialize(Tail(lol_data), na_val)

RECURSIVE lol_loop(_, _, _)
\* lines 264-268: from the last index down to the first, pop or assign
lol_loop(i, write_range, serial_data) ==
    IF i = 0 THEN write_range
    ELSE IF serial_data[i] = ""
         THEN lol_loop(i - 1, pop(write_range, i), serial_data)
         ELSE lol_loop(i - 1, [write_range EXCEPT ![i].value = serial_data[i]], serial_data)

NoRange == <<0, 0, 0, 0>>

\* lines 246-270
write_lol_to_sheet(lol_data, na_val, resize) ==
    IF lol_data = <<>>
    THEN \* lol_data[0] on an empty list
         [outcome |-> "IndexError", resized |-> <<0, 0>>, fetched |-> NoRange,
          batch |-> <<>>, updateCalls |-> 0]
    ELSE LET n_rows == Len(lol_data)
             n_cols == Len(lol_data[1])
             serial_data == serialize(lol_data, na_val)
         IN [outcome |-> "submitted",
             resized |-> IF resize THEN <<n_rows, n_cols>> ELSE <<0, 0>>,
             fetched |-> <<1, 1, n_rows, n_cols>>,
             batch |-> lol_loop(Len(serial_data), ws_range(1, 1, n_rows, n_cols),
                                serial_data),
             updateCalls |-> 1]

\* lines 291 and 294: the dictionary key of a position
Key(r, c) == ToString(r) \o "," \o ToString(c)

\* d[k] = v on a dictionary
dict_keep(d, k, v) ==
    [x \in DOMAIN d \cup {k} |-> IF x \in DOMAIN d THEN d[x] ELSE v]

dict_set(d, k, v) ==
    [x \in DOMAIN d \cup {k} |-> IF x = k THEN v ELSE d[x]]

RECURSIVE dict_of(_, _)
\* line 291: the comprehension inserts the triples in list order
dict_of(d, output_matrix) ==
    IF output_matrix = <<>> THEN d
    ELSE LET x == Head(output_matrix) IN
         dict_of(dict_set(d, Key(x.r, x.c), x.v), Tail(output_matrix))

EmptyDict == [x \in {} |-> ""]

min(S) == CHOOSE x \in S : \A y \in S : x <= y

max(S) == CHOOSE x \in S : \A y \in S : x >= y

RECURSIVE bulk_loop(_, _, _)
\* lines 293-298: from the last index down to the first, assign or pop
bulk_loop(i, write_range, cells) ==
    IF i = 0 THEN write_range
    ELSE LET loc == Key(write_range[i].row, write_range[i].col) IN
         IF loc \in DOMAIN cells
         THEN bulk_loop(i - 1, [write_range EXCEPT ![i].value = cells[loc]], cells)
         ELSE bulk_loop(i - 1, pop(write_range, i), cells)

\* lines 289-300
send_bulk_data(output_matrix) ==
    IF output_matrix = <<>>
    THEN \* min(rs) on an empty list
         [outcome |-> "ValueError", resized |-> <<0, 0>>, fetched |-> NoRange,
          batch |-> <<>>, updateCalls |-> 0]
    ELSE LET rs == {output_matrix[k].r : k \in DOMAIN output_matrix}
             cs == {output_matrix[k].c : k \in DOMAIN output_matrix}
             cells == dict_of(EmptyDict, output_matrix)
             write_range == ws_range(min(rs), min(cs), max(rs), max(cs))
         IN [outcome |-> "submitted", resized |-> <<0, 0>>,
             fetched |-> <<min(rs), min(cs), max(rs), max(cs)>>,
             batch |-> bulk_loop(Len(write_range), write_range, cells),
             updateCalls |-> 1]

NoSheet ==
    [op |-> "none", lol_data |-> <<>>, na_val |-> "", resize |-> FALSE,
     output_matrix |-> <<>>, outcome |-> "none", resized |-> <<0, 0>>,
     fetched |-> NoRange, batch |-> <<>>, updateCalls |-> 0]

WriteLolToSheet ==
    /\ sheet.op = "none"
    /\ \E lol_data \in Grids, na_val \in NaVals, resize \in BOOLEAN :
          LET r == write_lol_to_sheet(lol_data, na_val, resize) IN
          sheet' = [op |-> "write_lol_to_sheet", lol_data |-> lol_data,
                    na_val |-> na_val, resize |-> resize, output_matrix |-> <<>>,
                    outcome |-> r.outcome, resized |-> r.resized,
                    fetched |-> r.fetched, batch |-> r.batch,
                    updateCalls |-> r.updateCalls]
    /\ UNCHANGED <<credVars, script>>

SendBulkData ==
    /\ sheet.op = "none"
    /\ \E output_matrix \in TripleLists :
          LET r == send_bulk_data(output_matrix) IN
          sheet' = [op |-> "send_bulk_data", lol_data |-> <<>>, na_val |-> "",
                    resize |-> FALSE, output_matrix |-> output_matrix,
                    outcome |-> r.outcome, resized |-> r.resized,
                    fetched |-> r.fetched, batch |-> r.batch,
                    updateCalls |-> r.updateCalls]
    /\ UNCHANGED <<credVars, script>>

\* the caller has consumed the result and is ready for its next call
SheetReturn ==
    /\ sheet.op # "none"
    /\ sheet' = NoSheet
    /\ UNCHANGED <<credVars, script>>

InitSheet == sheet = NoSheet

(***************************************************************************)
(* Specifications                                                          *)
(***************************************************************************)
InitC == InitCreds /\ InitScript /\ InitSheet

NextCreds == CredsInit \/ CredCall \/ Tick

SpecCreds == InitC /\ [][NextCreds]_vars

InitS == InitC /\ store = NoFile

NextScript == CallAppsScript \/ ScriptReturn

SpecScript == InitS /\ [][NextScript]_vars

NextSheet == SendBulkData \/ WriteLolToSheet \/ SheetReturn

SpecSheet == InitS /\ [][NextSheet]_vars

(***************************************************************************)
(* Properties of the credential cache                                      *)
(***************************************************************************)
\* the last operation was a cred() call on a held credential
CredOnHeld == last.op = "cred" /\ last.preRef = "obj"

\* seconds from the call to the expiry of the credential held at the call
PreExpiresIn == last.preObj.expiry - last.preNow

\* C1: every cred() call whose refresh, if any, was accepted returns a
\* credential object (not None, no exception) that is valid and not expired
\* at the time of the call.
C1_CredReturnsValid ==
    (last.op = "cred" /\ last.outcome # "RefreshError")
        => /\ last.outcome = "returned"
           /\ ~last.retNone
           /\ valid(last.ret, last.preNow)

\* C2: a cred() call on a credential expiring in less than refresh_ttl
\* seconds, with the refresh accepted, makes exactly one refresh call and
\* returns the refreshed credential.
C2_RefreshReturnsRefreshed ==
    (CredOnHeld /\ last.preObj.expiry # NoExpiry /\ PreExpiresIn < _refresh_ttl
         /\ last.outcome # "RefreshError")
        => /\ last.outcome = "returned"
           /\ last.refreshCalls = 1
           /\ ~last.retNone
           /\ last.ret = credObj
           /\ last.ret.expiry > last.preNow

\* C3: a cred() call on a credential expiring more than refresh_ttl seconds
\* in the future makes no refresh call and returns the held credential,
\* which is left unchanged.
C3_NoRefreshWhenFar ==
    (CredOnHeld /\ last.preObj.expiry # NoExpiry /\ PreExpiresIn > _refresh_ttl)
        => /\ last.outcome = "returned"
           /\ last.refreshCalls = 0
           /\ last.flowCalls = 0
           /\ ~last.retNone
           /\ last.ret = last.preObj
           /\ credObj = last.preObj
           /\ _creds = "obj"

C3_Witness ==
    /\ CredOnHeld
    /\ last.preObj.expiry # NoExpiry
    /\ PreExpiresIn > _refresh_ttl
    /\ _refresh_ttl > 0
    /\ last.outcome = "returned"

\* C4: after every completed operation of a Creds instance the token file
\* holds the serialized credential that the instance holds in memory.
C4_StoreEqualsHeld ==
    pc = "ready"
        => /\ store.present
           /\ _creds = "obj"
           /\ store.cred = credObj

\* C10: when the refresh attempted inside cred() is rejected the call raises
\* the error: one refresh call, no consent flow, no value returned and the
\* held credential as it was before the call.
C10_RejectedRefreshPropagates ==
    (CredOnHeld /\ needs_refresh(last.preObj, last.preNow, _refresh_ttl)
         /\ ~refresh_ok(last.preObj, last.accept))
        => /\ last.outcome = "RefreshError"
           /\ last.retNone
           /\ last.refreshCalls = 1
           /\ last.flowCalls = 0
           /\ _creds = last.preRef
           /\ credObj = last.preObj

C10_Witness ==
    /\ CredOnHeld
    /\ needs_refresh(last.preObj, last.preNow, _refresh_ttl)
    /\ last.preObj.refresh_token
    /\ ~last.accept
    /\ last.outcome = "RefreshError"

(***************************************************************************)
(* Properties of call_apps_script                                          *)
(***************************************************************************)
\* C7: on a response with an error key the handler is called exactly once,
\* with the first error detail, its result is returned ("Error" for the
\* default handler) and nothing is raised.
C7_ScriptErrorHandled ==
    (script.op = "call_apps_script" /\ script.response.kind = "error")
        => /\ script.outcome = "returned"
           /\ script.handlerCalls = 1
           /\ script.handlerArg = script.response.details[1]
           /\ script.runCalls = 1
           /\ (script.handler = "output_script_error" => script.ret = "Error")
           /\ (script.handler = "custom"
                  => script.ret = "handled:" \o script.response.details[1].errorMessage)

C7_Witness ==
    /\ script.op = "call_apps_script"
    /\ script.response.kind = "error"
    /\ Len(script.response.details) = 2
    /\ script.response.details[1].errorMessage # script.response.details[2].errorMessage
    /\ script.handler = "custom"
    /\ script.handlerCalls = 1

\* C8: on a transport failure the raw error content is logged exactly once,
\* the error is raised to the caller, the handler is not called and the
\* remote call is made once.
C8_HttpErrorReraised ==
    (script.op = "call_apps_script" /\ script.response.kind = "HttpError")
        => /\ script.outcome = "HttpError"
           /\ script.errorLogs = <<script.response.content>>
           /\ script.handlerCalls = 0
           /\ script.runCalls = 1

C8_Witness ==
    /\ script.op = "call_apps_script"
    /\ script.response.kind = "HttpError"
    /\ script.outcome = "HttpError"
    /\ Len(script.errorLogs) = 1

(***************************************************************************)
(* Properties of the bulk sheet writers                                    *)
(***************************************************************************)
\* the value of grid position (r, c) after None is replaced by na_val
GridValue(r, c) ==
    IF sheet.lol_data[r][c] = "None" THEN sheet.na_val ELSE sheet.lol_data[r][c]

GridPositions ==
    {<<r, c>> : r \in 1 .. Len(sheet.lol_data), c \in 1 .. Len(sheet.lol_data[1])}

BatchPositions == {<<sheet.batch[i].row, sheet.batch[i].col>> : i \in DOMAIN sheet.batch}

\* the batch is in strict row-major order (so no position occurs twice)
BatchRowMajor ==
    \A i, j \in DOMAIN sheet.batch :
        i < j => \/ sheet.batch[i].row < sheet.batch[j].row
                 \/ /\ sheet.batch[i].row = sheet.batch[j].row
                    /\ sheet.batch[i].col < sheet.batch[j].col

LolCall == sheet.op = "write_lol_to_sheet" /\ sheet.lol_data # <<>>

\* C5: for a non-empty rectangular grid one batch is submitted; it holds
\* exactly the positions whose value (None replaced by na_val) is not "",
\* each with the value of its own position, in row-major order; all
\* rows x cols cells when no value is "", none when every value is "".
C5_LolBatch ==
    LolCall
        => /\ sheet.outcome = "submitted"
           /\ sheet.updateCalls = 1
           /\ sheet.fetched = <<1, 1, Len(sheet.lol_data), Len(sheet.lol_data[1])>>
           /\ BatchPositions = {p \in GridPositions : GridValue(p[1], p[2]) # ""}
           /\ BatchRowMajor
           /\ \A i \in DOMAIN sheet.batch :
                  sheet.batch[i].value = GridValue(sheet.batch[i].row, sheet.batch[i].col)
           /\ (\A p \in GridPositions : GridValue(p[1], p[2]) # "")
                  => Len(sheet.batch) = Len(sheet.lol_data) * Len(sheet.lol_data[1])
           /\ (\A p \in GridPositions : GridValue(p[1], p[2]) = "")
                  => sheet.batch = <<>>

C5_Witness ==
    /\ LolCall
    /\ Len(sheet.lol_data) = 2
    /\ Len(sheet.lol_data[1]) = 2
    /\ sheet.lol_data[1][1] = ""
    /\ sheet.lol_data[1][2] = "a"
    /\ sheet.lol_data[2][1] = "None"
    /\ sheet.lol_data[2][2] = "a"
    /\ sheet.na_val = "x"
    /\ Len(sheet.batch) = 3

BulkCall == sheet.op = "send_bulk_data" /\ sheet.output_matrix # <<>>

TriplePositions ==
    {<<sheet.output_matrix[k].r, sheet.output_matrix[k].c>> : k \in DOMAIN sheet.output_matrix}

\* the index of the last triple at position p
LastAt(p) ==
    CHOOSE k \in DOMAIN sheet.output_matrix :
        /\ <<sheet.output_matrix[k].r, sheet.output_matrix[k].c>> = p
        /\ \A m \in DOMAIN sheet.output_matrix :
               <<sheet.output_matrix[m].r, sheet.output_matrix[m].c>> = p => m <= k

\* the fetched range is the bounding rectangle of the triples, and one batch
\* holding exactly the positions of the triples, each once, is submitted
BulkRangeAndPositions ==
    /\ sheet.outcome = "submitted"
    /\ sheet.updateCalls = 1
    /\ \E p \in TriplePositions : sheet.fetched[1] = p[1]
    /\ \E p \in TriplePositions : sheet.fetched[2] = p[2]
    /\ \E p \in TriplePositions : sheet.fetched[3] = p[1]
    /\ \E p \in TriplePositions : sheet.fetched[4] = p[2]
    /\ \A p \in TriplePositions :
           /\ sheet.fetched[1] <= p[1] /\ p[1] <= sheet.fetched[3]
           /\ sheet.fetched[2] <= p[2] /\ p[2] <= sheet.fetched[4]
    /\ BatchPositions = TriplePositions
    /\ Len(sheet.batch) = Cardinality(TriplePositions)

\* C6 as stated: ... every triple's value is the value assigned to the cell
\* of its position.
C6_BulkEveryTriple ==
    BulkCall
        => /\ BulkRangeAndPositions
           /\ \A k \in DOMAIN sheet.output_matrix :
                  \E i \in DOMAIN sheet.batch :
                      /\ sheet.batch[i].row = sheet.output_matrix[k].r
                      /\ sheet.batch[i].col = sheet.output_matrix[k].c
                      /\ sheet.batch[i].value = sheet.output_matrix[k].v

\* C6 amended: for a non-empty list of triples the range fetched is the
\* bounding rectangle and one batch is submitted that holds exactly the
\* positions occurring in the triples, each once and each assigned the value
\* of the last triple of the list at that position.
C6_BulkLastTriple ==
    BulkCall
        => /\ BulkRangeAndPositions
           /\ \A i \in DOMAIN sheet.batch :
                  sheet.batch[i].value =
                      sheet.output_matrix[LastAt(<<sheet.batch[i].row, sheet.batch[i].col>>)].v

C6_Witness ==
    /\ BulkCall
    /\ Len(sheet.output_matrix) = 3
    /\ sheet.output_matrix[1] = [r |-> 1, c |-> 1, v |-> "a"]
    /\ sheet.output_matrix[2] = [r |-> 2, c |-> 2, v |-> "b"]
    /\ sheet.output_matrix[3] = [r |-> 1, c |-> 1, v |-> "b"]
    /\ sheet.fetched = <<1, 1, 2, 2>>
    /\ Len(sheet.batch) = 2

\* C9: a grid with no row or with nothing but empty cells given to
\* write_lol_to_sheet, or an empty list of triples given to send_bulk_data,
\* ends in one submission of an empty batch, not in a failure.
C9_EmptyInputIsNoOp ==
    ((sheet.op = "write_lol_to_sheet"
          /\ \A r \in DOMAIN sheet.lol_data :
                 \A c \in DOMAIN sheet.lol_data[r] : GridValue(r, c) = "")
         \/ (sheet.op = "send_bulk_data" /\ sheet.output_matrix = <<>>))
        => /\ sheet.outcome = "submitted"
           /\ sheet.batch = <<>>
           /\ sheet.updateCalls = 1

====
